---- MODULE Spec2Model ----
(***************************************************************************)
(* Node label reconciler (LabelMaker) of layer-kubernetes-node-base.       *)
(*                                                                         *)
(* Two revisions of the same class are modelled, chosen by `rev`:          *)
(*   "ops"   : src/ops/charms/node_base.py                                 *)
(*   "layer" : src/lib/charms/layer/kubernetes_master_worker_base.py       *)
(*                                                                         *)
(* Strings are sequences of lexemes: a lexeme is one character ("=", "-",  *)
(* " ", "\t") or a run of characters holding none of these, written as one *)
(* TLA+ string ("a", "juju.io/cloud").  Python's str.split and             *)
(* str.endswith are computed on these sequences.  A dict is a sequence of  *)
(* <<key, value>> pairs with distinct keys, in insertion order.            *)
(***************************************************************************)
EXTENDS Integers, Sequences, FiniteSets, TLC

VARIABLES
    rev,                  \* which revision of LabelMaker runs
    config,               \* the `labels` configuration string
    raise_invalid_label,  \* self._raise_invalid_label (ops)
    timeout,              \* self.timeout / the timeout default
    kubectl_exists,       \* _is_kubectl(self.kubectl_path)
    juju_az,              \* os.getenv(JUJU_AVAILABILITY_ZONE), <<>> when unset
    current_labels,       \* the persisted dict current_labels
    initial_labels,       \* current_labels as it was when the run started
    node,                 \* the labels the node carries: a set of <<key, value>>
    pc,                   \* position of apply_node_labels
    user_labels,          \* the local dict user_labels
    keys_todo,            \* what is left of list(current_labels.keys())
    items_todo,           \* what is left of user_labels.items()
    call,                 \* the operation in flight and its _retried_call
    oplog,                \* the operations issued so far, in order
    error,                \* the exception that left apply_node_labels
    cloud,                \* the cloud identity read by the cloud step
    warnings,             \* the malformed-token messages logged
    live,                 \* what active_labels returned to get_label in this run
    run,                  \* which run of apply_node_labels this is
    prev_end              \* how the run before this one ended, if it completed

vars == <<rev, config, raise_invalid_label, timeout, kubectl_exists, juju_az,
          current_labels, initial_labels, node, pc, user_labels, keys_todo,
          items_todo, call, oplog, error, cloud, warnings, live, run,
          prev_end>>

(***************************************************************************)
(* Bounds of the model.                                                    *)
(***************************************************************************)
MaxTokens == 2
MaxStored == 2
MaxTimeout == 2
MaxCmdTime == 2
MaxRuns == 2

(***************************************************************************)
(* Program constants.                                                      *)
(***************************************************************************)
Backoff == 1

TOPOLOGY_NODE_LABEL == <<"topology.kubernetes.io/zone">>
JUJU_APPLICATION == <<"juju-application">>
JUJU_CHARM == <<"juju-charm">>
JUJU_IO_CLOUD == <<"juju.io/cloud">>

juju_io_cloud_labels ==
    << <<"aws", <<"ec2">> >>,
       <<"gcp", <<"gce">> >>,
       <<"openstack", <<"openstack">> >>,
       <<"vsphere", <<"vsphere">> >>,
       <<"azure", <<"azure">> >> >>

AppName == <<"test-charm">>
CharmName == <<"test-charm-meta">>

(***************************************************************************)
(* Strings and dicts.                                                      *)
(***************************************************************************)
RECURSIVE SplitFrom(_, _, _, _)
SplitFrom(s, sep, i, cur) ==
    IF i > Len(s) THEN <<cur>>
    ELSE IF s[i] = sep THEN <<cur>> \o SplitFrom(s, sep, i + 1, <<>>)
    ELSE SplitFrom(s, sep, i + 1, Append(cur, s[i]))

\* str.split(sep): "".split(" ") is [""], "a  b".split(" ") is ["a", "", "b"]
Split(s, sep) == SplitFrom(s, sep, 1, <<>>)

RECURSIVE WsFrom(_, _, _)
WsFrom(s, i, cur) ==
    IF i > Len(s) THEN (IF Len(cur) > 0 THEN <<cur>> ELSE <<>>)
    ELSE IF s[i] \in {" ", "\t"}
    THEN (IF Len(cur) > 0 THEN <<cur>> ELSE <<>>) \o WsFrom(s, i + 1, <<>>)
    ELSE WsFrom(s, i + 1, Append(cur, s[i]))
\* str.split() and shlex.split on a string without quotes: the words between
\* runs of whitespace
WsTokens(s) == WsFrom(s, 1, <<>>)

\* str.endswith(c) for a one-character c
EndsWith(s, c) == Len(s) > 0 /\ s[Len(s)] = c

RECURSIVE Join(_)
Join(ts) ==
    IF Len(ts) = 0 THEN <<>>
    ELSE IF Len(ts) = 1 THEN ts[1]
    ELSE ts[1] \o <<" ">> \o Join(Tail(ts))

Keys(d) == [i \in 1..Len(d) |-> d[i][1]]
KeySet(d) == {d[i][1] : i \in 1..Len(d)}
HasKey(d, k) == k \in KeySet(d)
\* d[k] = v: an existing key keeps its place, a new key goes last
DictSet(d, k, v) ==
    IF HasKey(d, k)
    THEN [i \in 1..Len(d) |-> IF d[i][1] = k THEN <<k, v>> ELSE d[i]]
    ELSE Append(d, <<k, v>>)
\* del d[k]
DictDel(d, k) == SelectSeq(d, LAMBDA p : p[1] # k)
Pairs(d) == {d[i] : i \in 1..Len(d)}


(***************************************************************************)
(* The configuration parser.                                               *)
(***************************************************************************)
\* an unpacking that only objects to a token without "="
MalformedFew(item) == Len(Split(item, "=")) < 2

\* `key, val = item.split("=")` raises ValueError unless there are two parts
Malformed(item) == Len(Split(item, "=")) # 2

RECURSIVE ParseItems(_, _)
ParseItems(items, acc) ==
    IF Len(items) = 0 THEN acc
    ELSE IF Malformed(Head(items)) THEN ParseItems(Tail(items), acc)
    ELSE ParseItems(Tail(items),
                    DictSet(acc, Split(Head(items), "=")[1],
                                 Split(Head(items), "=")[2]))

\* the dict user_labels() returns when it does not raise
ParseLabels(data) == ParseItems(Split(data, " "), <<>>)

\* the tokens that take the `except ValueError` branch, in order
MalformedItems(data) == SelectSeq(Split(data, " "), Malformed)

(***************************************************************************)
(* Exceptions and retry messages.                                          *)
(***************************************************************************)
NoError == [what |-> "none", key |-> <<>>, val |-> <<>>]
MalformedError(item) == [what |-> "Malformed label", key |-> item, val |-> <<>>]

\* the retry_msg each operation hands to _retried_call
RetryMsg(kind, stage, key, val) ==
    IF stage = "which"
    THEN [what |-> "Failed to find kubectl", key |-> <<>>, val |-> <<>>]
    ELSE IF kind = "set"
    THEN [what |-> "Failed to apply label", key |-> key, val |-> val]
    ELSE IF kind = "remove"
    THEN [what |-> "Failed to remove label", key |-> key, val |-> <<>>]
    ELSE [what |-> "Failed to get labels", key |-> <<>>, val |-> <<>>]

(***************************************************************************)
(* The cluster: what a successful kubectl label command does to the node.  *)
(***************************************************************************)
\* kubectl label without --overwrite leaves a label that is there alone
NodeSetNoOverwrite(n, k, v) ==
    IF \E p \in n : p[1] = k THEN n ELSE n \cup {<<k, v>>}

\* kubectl label node N key=value --overwrite
NodeSet(n, k, v) == {p \in n : p[1] # k} \cup {<<k, v>>}
\* kubectl label node N key-
NodeRemove(n, k) == {p \in n : p[1] # k}
NodeHas(n, k) == \E p \in n : p[1] = k
NodeGet(n, k) == (CHOOSE p \in n : p[1] = k)[2]

(***************************************************************************)
(* _retried_call and the operation that runs it.                           *)
(***************************************************************************)
Idle ==
    [kind |-> "none", key |-> <<>>, val |-> <<>>, stage |-> "idle",
     now |-> 0, deadline |-> 0, dur |-> 0, last |-> <<>>, exhausted |-> FALSE]

InFlight == call.stage \in {"which", "cmd"} /\ ~call.exhausted

\* a deadline that leaves the timeout out
DeadlineNow(t) == 0

\* deadline = time.time() + timeout, the clock read as 0 when the call starts
Deadline(t) == 0 + t

\* a _kubectl that trusts the configured path
FirstStageTrusting == "cmd"

\* _kubectl: the lookup runs first when the configured path does not exist
FirstStage == IF rev = "ops" /\ ~kubectl_exists THEN "which" ELSE "cmd"

NewCall(kind, key, val, stage) ==
    [kind |-> kind, key |-> key, val |-> val, stage |-> stage,
     now |-> 0, deadline |-> Deadline(timeout), dur |-> 0, last |-> <<>>,
     exhausted |-> FALSE]

\* the step of apply_node_labels a position belongs to
PhaseOf(p) ==
    IF p \in {"zone", "zone_get", "zone_decide", "zone_set"} THEN "zone"
    ELSE IF p \in {"cloud", "cloud_op"} THEN "cloud"
    ELSE p

OpRecord(kind, key, val) ==
    [op |-> kind, key |-> key, val |-> val, phase |-> PhaseOf(pc)]

\* set_label / remove_label / active_labels is entered: _kubectl, then the
\* label command is handed to _retried_call
BeginOp(kind, key, val) ==
    /\ call' = NewCall(kind, key, val, FirstStage)
    /\ oplog' = IF FirstStage = "cmd"
                THEN Append(oplog, OpRecord(kind, key, val))
                ELSE oplog

\* a failed pass during which the clock stands still
FailedPassFrozen(c, d) ==
    [c EXCEPT !.dur = d, !.last = <<"run", "log", "sleep">>]

\* a failed pass that goes round again without sleeping
FailedPassNoSleep(c, d) ==
    [c EXCEPT !.now = c.now + d, !.dur = d, !.last = <<"run", "log">>]

\* one failed pass of the while loop: run, log.error, time.sleep(1)
FailedPass(c, d) ==
    [c EXCEPT !.now = c.now + d + Backoff,
              !.dur = d,
              !.last = <<"run", "log", "sleep">>]

\* the pass that returns: run, and nothing after it
ReturnedCall == [Idle EXCEPT !.last = <<"run">>]


(***************************************************************************)
(* The cloud table.                                                        *)
(***************************************************************************)
RECURSIVE LastMatch(_, _)
\* a loop without its `break`: the last active entry wins
LastMatch(active, i) ==
    IF i > Len(juju_io_cloud_labels) THEN 0
    ELSE IF LastMatch(active, i + 1) > 0 THEN LastMatch(active, i + 1)
    ELSE IF juju_io_cloud_labels[i][1] \in active THEN i
    ELSE 0

RECURSIVE FirstMatch(_, _)
\* the index of the first table entry, from i on, whose endpoint is active; 0
\* when the for loop reaches its else branch
FirstMatch(active, i) ==
    IF i > Len(juju_io_cloud_labels) THEN 0
    ELSE IF juju_io_cloud_labels[i][1] \in active THEN i
    ELSE FirstMatch(active, i + 1)

\* ops: {get_cloud_name()}, {} when it names nothing
\* layer: the endpoints whose endpoint.<name>.ready flag is set
CloudReads ==
    IF rev = "ops"
    THEN {{}, {"aws"}, {"gcp"}, {"openstack"}, {"vsphere"}, {"azure"}, {"my-cloud"}}
    ELSE {{}, {"aws"}, {"gcp", "aws"}, {"vsphere", "azure"}, {"openstack"}}

(***************************************************************************)
(* Inputs.                                                                 *)
(***************************************************************************)
KeyA == <<"a">>
Foreign == <<"x">>

Tokens ==
    { <<>>,
      <<"a", "=", "1">>,
      <<"a", "=", "1", "-">>,
      <<"juju-application", "=", "1">> }

Configs ==
    {Join(ts) : ts \in UNION {[1..m -> Tokens] : m \in 1..MaxTokens}}

StoredOrder ==
    << <<KeyA, <<"1">> >>,
       <<JUJU_IO_CLOUD, <<"1">> >>,
       <<TOPOLOGY_NODE_LABEL, <<"1">> >> >>

StoredStates ==
    {SelectSeq(StoredOrder, LAMBDA p : p \in S) :
        S \in {T \in SUBSET Pairs(StoredOrder) : Cardinality(T) <= MaxStored}}

Zones == {<<>>, <<"z1">>}

\* get_label has not called active_labels
Unread == [status |-> "unread", labels |-> {}]
\* active_labels returned None
Unavailable == [status |-> "none", labels |-> {}]
\* no run has ended yet
NoRun ==
    [node |-> {}, labels |-> <<>>, cloud |-> {}, read |-> "unread",
     done |-> FALSE, first |-> <<>>]

Init ==
    /\ rev \in {"ops", "layer"}
    /\ config \in Configs
    /\ timeout \in 1..MaxTimeout
    /\ raise_invalid_label \in (IF rev = "ops" THEN BOOLEAN ELSE {FALSE})
    /\ kubectl_exists \in (IF rev = "ops" THEN BOOLEAN ELSE {TRUE})
    /\ juju_az \in (IF rev = "ops" THEN Zones ELSE {<<>>})
    /\ current_labels \in StoredStates
    /\ initial_labels = current_labels
    /\ node = Pairs(current_labels) \cup {<<Foreign, <<"9">> >>}
    /\ pc = "start"
    /\ user_labels = <<>>
    /\ keys_todo = <<>>
    /\ items_todo = <<>>
    /\ call = Idle
    /\ oplog = <<>>
    /\ error = NoError
    /\ cloud = {}
    /\ warnings = <<>>
    /\ live = Unread
    /\ run = 1
    /\ prev_end = NoRun

inputs == <<rev, config, raise_invalid_label, timeout, juju_az, initial_labels>>

(***************************************************************************)
(* apply_node_labels, step by step.                                        *)
(***************************************************************************)
\* user_labels(): parse, raising at the first malformed token in strict mode
UserLabels ==
    /\ pc = "start"
    /\ IF raise_invalid_label /\ Len(MalformedItems(config)) > 0
       THEN /\ pc' = "error"
            /\ error' = MalformedError(Head(MalformedItems(config)))
            /\ UNCHANGED <<user_labels, warnings, keys_todo>>
       ELSE /\ pc' = IF rev = "ops" THEN "zone" ELSE "remove"
            /\ user_labels' = ParseLabels(config)
            /\ warnings' = MalformedItems(config)
            /\ keys_todo' = Keys(current_labels)
            /\ error' = error
    /\ UNCHANGED <<inputs, run, prev_end, live,
                   kubectl_exists, current_labels, node, items_todo,
                   call, oplog, cloud>>

\* `if juju_az and not self.get_label(...)`: the live read starts when the
\* hint is present
ZoneCheck ==
    /\ pc = "zone" /\ call.stage = "idle"
    /\ IF Len(juju_az) > 0
       THEN /\ pc' = "zone_get"
            /\ BeginOp("get", TOPOLOGY_NODE_LABEL, <<>>)
       ELSE /\ pc' = "remove"
            /\ UNCHANGED <<call, oplog>>
    /\ UNCHANGED <<inputs, run, prev_end, live,
                   kubectl_exists, current_labels, node, user_labels,
                   keys_todo, items_todo, error, cloud, warnings>>

\* a test that looks the label up in current_labels
ZoneMissingStored(l) == ~HasKey(current_labels, TOPOLOGY_NODE_LABEL)

\* `not self.get_label(TOPOLOGY_NODE_LABEL)`: active_labels returned None, or
\* the label is absent, or its value is empty
ZoneMissing(l) ==
    ~(l.status = "labels" /\ NodeHas(l.labels, TOPOLOGY_NODE_LABEL)
                          /\ Len(NodeGet(l.labels, TOPOLOGY_NODE_LABEL)) > 0)

\* get_label has returned and the `if` is decided
ZoneDecide ==
    /\ pc = "zone_decide" /\ call.stage = "idle"
    /\ pc' = IF ZoneMissing(live) THEN "zone_set" ELSE "remove"
    /\ UNCHANGED <<inputs, run, prev_end, live, kubectl_exists, current_labels, node,
                   user_labels, keys_todo, items_todo, call, oplog, error,
                   cloud, warnings>>

\* self.set_label(TOPOLOGY_NODE_LABEL, juju_az)
ZoneSet ==
    /\ pc = "zone_set" /\ call.stage = "idle"
    /\ BeginOp("set", TOPOLOGY_NODE_LABEL, juju_az)
    /\ UNCHANGED <<inputs, run, prev_end, live,
                   kubectl_exists, current_labels, node, pc,
                   user_labels, keys_todo, items_todo, error, cloud, warnings>>

\* a removal loop that forgets the `if key not in user_labels` test
SkipNothing(ks, ul) == ks

RECURSIVE SkipKept(_, _)
\* the removal loop passes over the keys that are still configured
SkipKept(ks, ul) ==
    IF Len(ks) > 0 /\ HasKey(ul, Head(ks)) THEN SkipKept(Tail(ks), ul) ELSE ks

\* for key in list(current_labels.keys()): if key not in user_labels: remove
RemoveStep ==
    /\ pc = "remove" /\ call.stage = "idle"
    /\ keys_todo' = SkipKept(keys_todo, user_labels)
    /\ IF Len(keys_todo') = 0
       THEN /\ pc' = "add"
            /\ items_todo' = user_labels
            /\ UNCHANGED <<call, oplog>>
       ELSE /\ BeginOp("remove", Head(keys_todo'), <<>>)
            /\ UNCHANGED <<pc, items_todo>>
    /\ UNCHANGED <<inputs, run, prev_end, live,
                   kubectl_exists, current_labels, node, user_labels,
                   error, cloud, warnings>>

\* ops: a value ending with "-" asks for a removal; layer: every value is set
AddKind(val) == IF rev = "ops" /\ EndsWith(val, "-") THEN "remove" ELSE "set"

\* for key, val in user_labels.items(): remove_label or set_label
AddStep ==
    /\ pc = "add" /\ call.stage = "idle"
    /\ IF Len(items_todo) = 0
       THEN /\ pc' = "app"
            /\ UNCHANGED <<call, oplog>>
       ELSE /\ BeginOp(AddKind(Head(items_todo)[2]), Head(items_todo)[1],
                       IF AddKind(Head(items_todo)[2]) = "set"
                       THEN Head(items_todo)[2] ELSE <<>>)
            /\ pc' = pc
    /\ UNCHANGED <<inputs, run, prev_end, live,
                   kubectl_exists, current_labels, node, user_labels,
                   keys_todo, items_todo, error, cloud, warnings>>

\* self.set_label("juju-application", ...)
AppStep ==
    /\ pc = "app" /\ call.stage = "idle"
    /\ BeginOp("set", JUJU_APPLICATION, AppName)
    /\ UNCHANGED <<inputs, run, prev_end, live,
                   kubectl_exists, current_labels, node, pc,
                   user_labels, keys_todo, items_todo, error, cloud, warnings>>

\* self.set_label("juju-charm", ...) (ops)
CharmStep ==
    /\ pc = "charm" /\ call.stage = "idle"
    /\ BeginOp("set", JUJU_CHARM, CharmName)
    /\ UNCHANGED <<inputs, run, prev_end, live,
                   kubectl_exists, current_labels, node, pc,
                   user_labels, keys_todo, items_todo, error, cloud, warnings>>

\* the for/else over juju_io_cloud_labels
CloudStep ==
    /\ pc = "cloud" /\ call.stage = "idle"
    /\ \E active \in CloudReads :
        /\ cloud' = active
        /\ IF FirstMatch(active, 1) > 0
           THEN BeginOp("set", JUJU_IO_CLOUD,
                        juju_io_cloud_labels[FirstMatch(active, 1)][2])
           ELSE BeginOp("remove", JUJU_IO_CLOUD, <<>>)
    /\ pc' = "cloud_op"
    /\ UNCHANGED <<inputs, run, prev_end, live,
                   kubectl_exists, current_labels, node, user_labels,
                   keys_todo, items_todo, error, warnings>>


(***************************************************************************)
(* The passes of _retried_call's while loop.                               *)
(***************************************************************************)
\* the command fails: log the retry message, sleep, go round again
AttemptFail ==
    /\ InFlight /\ call.now < call.deadline
    /\ \E d \in 0..MaxCmdTime : call' = FailedPass(call, d)
    /\ UNCHANGED <<inputs, run, prev_end, live,
                   kubectl_exists, current_labels, node, pc,
                   user_labels, keys_todo, items_todo, oplog, error, cloud,
                   warnings>>

\* `which kubectl` succeeds: kubectl_path is the resolved path, and the label
\* command goes to a fresh _retried_call
LookupOk ==
    /\ InFlight /\ call.stage = "which" /\ call.now < call.deadline
    /\ kubectl_exists' = TRUE
    /\ call' = NewCall(call.kind, call.key, call.val, "cmd")
    /\ oplog' = Append(oplog, OpRecord(call.kind, call.key, call.val))
    /\ UNCHANGED <<inputs, run, prev_end, live,
                   current_labels, node, pc, user_labels, keys_todo,
                   items_todo, error, cloud, warnings>>

\* the label arguments of the command line: the format string is filled in
\* and the whole line is split at whitespace
CommandWords(kind, key, val) ==
    IF kind = "set" THEN WsTokens(key \o <<"=">> \o val)
    ELSE IF kind = "remove" THEN WsTokens(key \o <<"-">>)
    ELSE <<>>

\* kubectl label takes KEY=VALUE and KEY- arguments and rejects the rest
ValidWord(w) ==
    \/ Len(Split(w, "=")) = 2
    \/ Len(Split(w, "=")) = 1 /\ EndsWith(w, "-")

CommandValid(c) ==
    \A i \in 1..Len(CommandWords(c.kind, c.key, c.val)) :
        ValidWord(CommandWords(c.kind, c.key, c.val)[i])

\* one label argument at work on the node
ApplyWord(n, w) ==
    IF Len(Split(w, "=")) = 2
    THEN NodeSet(n, Split(w, "=")[1], Split(w, "=")[2])
    ELSE NodeRemove(n, SubSeq(w, 1, Len(w) - 1))

RECURSIVE ApplyWords(_, _)
ApplyWords(n, ws) ==
    IF Len(ws) = 0 THEN n ELSE ApplyWords(ApplyWord(n, Head(ws)), Tail(ws))

\* what the command that succeeded did to the node
NodeAfter(kind, n, key, val) == ApplyWords(n, CommandWords(kind, key, val))

\* user-label loops that delete but never record
StoredNeverRecorded(p, kind, cl, key, val) ==
    IF p = "remove" THEN DictDel(cl, key) ELSE cl

\* a reconciler that records every label it sets
StoredEverySet(p, kind, cl, key, val) ==
    IF kind = "set" THEN DictSet(cl, key, val)
    ELSE IF p = "remove" THEN DictDel(cl, key)
    ELSE cl

\* the statement that follows the operation in the two user-label loops
StoredAfter(p, kind, cl, key, val) ==
    IF p = "remove" THEN DictDel(cl, key)
    ELSE IF p = "add" /\ kind = "set" THEN DictSet(cl, key, val)
    ELSE cl

\* a read that reports the persisted labels only
ActiveLabelsStored(json_ok, n) ==
    IF json_ok THEN [status |-> "labels", labels |-> Pairs(current_labels)]
    ELSE Unavailable

\* active_labels' return value: the node's labels when the output is JSON,
\* None when it is not
ActiveLabels(json_ok, n) ==
    IF json_ok THEN [status |-> "labels", labels |-> n] ELSE Unavailable

\* where apply_node_labels goes on when the operation at p has returned
PcAfter(p) ==
    IF p = "zone_get" THEN "zone_decide"
    ELSE IF p = "zone_set" THEN "remove"
    ELSE IF p = "app" THEN (IF rev = "ops" THEN "charm" ELSE "cloud")
    ELSE IF p = "charm" THEN "cloud"
    ELSE IF p = "cloud_op" THEN "done"
    ELSE p

\* the label command succeeds: _retried_call returns at once and the caller
\* carries on
CommandOk ==
    /\ InFlight /\ call.stage = "cmd" /\ call.now < call.deadline
    /\ CommandValid(call)
    /\ call' = ReturnedCall
    /\ node' = NodeAfter(call.kind, node, call.key, call.val)
    /\ current_labels' =
           StoredAfter(pc, call.kind, current_labels, call.key, call.val)
    /\ keys_todo' = IF pc = "remove" THEN Tail(keys_todo) ELSE keys_todo
    /\ items_todo' = IF pc = "add" THEN Tail(items_todo) ELSE items_todo
    /\ pc' = PcAfter(pc)
    /\ IF call.kind = "get"
       THEN \E json_ok \in BOOLEAN : live' = ActiveLabels(json_ok, node)
       ELSE live' = live
    /\ UNCHANGED <<inputs, run, prev_end,
                   kubectl_exists, user_labels, oplog, error, cloud,
                   warnings>>

\* an except clause around every operation
CaughtAlways(c) == TRUE

\* active_labels catches the NodeLabelError of its own command, and of nothing
\* else
Caught(c) == c.kind = "get" /\ c.stage = "cmd"

\* the deadline has passed: the else branch of the while loop
Exhaust ==
    /\ InFlight /\ call.now >= call.deadline
    /\ IF Caught(call)
       THEN /\ call' = [call EXCEPT !.exhausted = TRUE, !.stage = "idle"]
            /\ pc' = PcAfter(pc)
            /\ error' = error
            /\ live' = Unavailable
       ELSE /\ call' = [call EXCEPT !.exhausted = TRUE]
            /\ pc' = "error"
            /\ error' = RetryMsg(call.kind, call.stage, call.key, call.val)
            /\ live' = live
    /\ UNCHANGED <<inputs, run, prev_end,
                   kubectl_exists, current_labels, node, user_labels,
                   keys_todo, items_todo, oplog, cloud, warnings>>

Next ==
    \/ UserLabels
    \/ ZoneCheck
    \/ ZoneDecide
    \/ ZoneSet
    \/ RemoveStep
    \/ AddStep
    \/ AppStep
    \/ CharmStep
    \/ CloudStep
    \/ AttemptFail
    \/ LookupOk
    \/ CommandOk
    \/ Exhaust

Spec == Init /\ [][Next]_vars

(***************************************************************************)
(* Runs in succession: apply_node_labels is called again after a run that  *)
(* completed, with the configuration and the context it had, on a node     *)
(* whose zone label need not be what current_labels says.                  *)
(***************************************************************************)
RunConfigs == Tokens

\* the zone label the node carries when the first run starts
NodeZones ==
    { {},
      {<<TOPOLOGY_NODE_LABEL, <<>> >>},
      {<<TOPOLOGY_NODE_LABEL, <<"1">> >>} }

InitRuns ==
    /\ rev \in {"ops", "layer"}
    /\ config \in RunConfigs
    /\ timeout = 1
    /\ raise_invalid_label = FALSE
    /\ kubectl_exists \in (IF rev = "ops" THEN BOOLEAN ELSE {TRUE})
    /\ juju_az \in (IF rev = "ops" THEN Zones ELSE {<<>>})
    /\ current_labels \in StoredStates
    /\ initial_labels = current_labels
    /\ \E z \in NodeZones :
           node = {p \in Pairs(current_labels) : p[1] # TOPOLOGY_NODE_LABEL}
                      \cup z \cup {<<Foreign, <<"9">> >>}
    /\ pc = "start"
    /\ user_labels = <<>>
    /\ keys_todo = <<>>
    /\ items_todo = <<>>
    /\ call = Idle
    /\ oplog = <<>>
    /\ error = NoError
    /\ cloud = {}
    /\ warnings = <<>>
    /\ live = Unread
    /\ run = 1
    /\ prev_end = NoRun

\* the next call of apply_node_labels, on the same LabelMaker, after a run
\* that completed or raised
Rerun ==
    /\ pc \in {"done", "error"} /\ run < MaxRuns
    /\ run' = run + 1
    /\ prev_end' =
           [(IF pc = "done"
             THEN [node |-> node, labels |-> current_labels, cloud |-> cloud,
                   read |-> live.status, done |-> TRUE, first |-> <<>>]
             ELSE NoRun)
            EXCEPT !.first = IF run = 1 THEN initial_labels ELSE prev_end.first]
    /\ initial_labels' = current_labels
    /\ pc' = "start"
    /\ user_labels' = <<>>
    /\ keys_todo' = <<>>
    /\ items_todo' = <<>>
    /\ call' = Idle
    /\ oplog' = <<>>
    /\ cloud' = {}
    /\ warnings' = <<>>
    /\ live' = Unread
    /\ error' = NoError
    /\ UNCHANGED <<rev, config, raise_invalid_label, timeout, juju_az,
                   kubectl_exists, current_labels, node>>

NextRuns == Next \/ Rerun

SpecRuns == InitRuns /\ [][NextRuns]_vars

(***************************************************************************)
(* One run to its end: every statement that can execute does execute, the  *)
(* program being single-threaded and every command returning.              *)
(***************************************************************************)
InitLive ==
    /\ rev \in {"ops", "layer"}
    /\ config \in RunConfigs
    /\ timeout \in 1..MaxTimeout
    /\ raise_invalid_label \in (IF rev = "ops" THEN BOOLEAN ELSE {FALSE})
    /\ kubectl_exists \in (IF rev = "ops" THEN BOOLEAN ELSE {TRUE})
    /\ juju_az \in (IF rev = "ops" THEN Zones ELSE {<<>>})
    /\ current_labels \in StoredStates
    /\ initial_labels = current_labels
    /\ node = Pairs(current_labels) \cup {<<Foreign, <<"9">> >>}
    /\ pc = "start"
    /\ user_labels = <<>>
    /\ keys_todo = <<>>
    /\ items_todo = <<>>
    /\ call = Idle
    /\ oplog = <<>>
    /\ error = NoError
    /\ cloud = {}
    /\ warnings = <<>>
    /\ live = Unread
    /\ run = 1
    /\ prev_end = NoRun

SpecLive == InitLive /\ [][Next]_vars /\ WF_vars(Next)

(***************************************************************************)
(* The parser at work: configurations built from a wider set of tokens,    *)
(* followed through user_labels() and the two user-label loops in the runs *)
(* where every command succeeds at its first pass.                         *)
(***************************************************************************)
ParseTokens ==
    { <<>>,
      <<"a", "=", "1">>,
      <<"a", "=", "2">>,
      <<"b", "=", "1">>,
      <<"a">>,
      <<"a", "=", "1", "=", "2">>,
      <<"a", "=", "1", "\t", "b", "=", "1">>,
      <<"x", "-", "\t", "a", "=", "1">> }

ParseConfigs ==
    {Join(ts) : ts \in UNION {[1..m -> ParseTokens] : m \in 1..MaxTokens}}

ParseStored == { <<>>, << <<KeyA, <<"1">> >> >> }

InitParse ==
    /\ rev \in {"ops", "layer"}
    /\ config \in ParseConfigs
    /\ timeout = 1
    /\ raise_invalid_label \in (IF rev = "ops" THEN BOOLEAN ELSE {FALSE})
    /\ kubectl_exists = TRUE
    /\ juju_az = <<>>
    /\ current_labels \in ParseStored
    /\ initial_labels = current_labels
    /\ node = Pairs(current_labels) \cup {<<Foreign, <<"9">> >>}
    /\ pc = "start"
    /\ user_labels = <<>>
    /\ keys_todo = <<>>
    /\ items_todo = <<>>
    /\ call = Idle
    /\ oplog = <<>>
    /\ error = NoError
    /\ cloud = {}
    /\ warnings = <<>>
    /\ live = Unread
    /\ run = 1
    /\ prev_end = NoRun

NextParse ==
    \/ UserLabels
    \/ ZoneCheck
    \/ RemoveStep
    \/ AddStep
    \/ CommandOk

SpecParse == InitParse /\ [][NextParse]_vars


(***************************************************************************)
(* Claims.                                                                 *)
(***************************************************************************)
Done == pc = "done"
Dashed(val) == EndsWith(val, "-")
Issued(kind, key, phase) ==
    \E i \in 1..Len(oplog) :
        oplog[i].op = kind /\ oplog[i].key = key /\ oplog[i].phase = phase
Dropped == KeySet(initial_labels) \ KeySet(user_labels)
Kept == KeySet(initial_labels) \cap KeySet(user_labels)

\* C1: in a run that completes, every key persisted at the start and absent
\* from the parsed user labels gets a remove in the removal step and is gone
\* from the persisted state, and the removal step issues no operation for a
\* key that is both persisted and configured.
C1_RemovesExactlyDropped ==
    Done =>
        /\ \A k \in Dropped :
               Issued("remove", k, "remove") /\ ~HasKey(current_labels, k)
        /\ \A i \in 1..Len(oplog) :
               oplog[i].phase = "remove" =>
                   oplog[i].op = "remove" /\ oplog[i].key \notin Kept

C1_Witness == Done /\ Dropped # {} /\ Kept # {}

\* C2 as stated: after a run that completes, the persisted mapping equals the
\* parsed user labels.
C2_PersistedEqualsDesired == Done => Pairs(current_labels) = Pairs(user_labels)

\* C2 amended: after a run that completes, the persisted mapping holds no key
\* outside the parsed user labels and agrees with them on every entry, except
\* that the ops revision promises nothing for an entry whose value ends with
\* "-" (so the two are equal whenever no such entry is configured, and always
\* in the layer revision).
C2_PersistedMatchesUndashed ==
    Done =>
        /\ KeySet(current_labels) \subseteq KeySet(user_labels)
        /\ \A p \in Pairs(user_labels) :
               (rev = "layer" \/ ~Dashed(p[2])) => p \in Pairs(current_labels)

C2_Witness ==
    /\ Done /\ rev = "ops"
    /\ \E p \in Pairs(user_labels) : Dashed(p[2])
    /\ \E p \in Pairs(user_labels) : ~Dashed(p[2]) /\ p \in Pairs(current_labels)
    /\ Pairs(initial_labels) # Pairs(current_labels)

Owned == {JUJU_APPLICATION, JUJU_CHARM, JUJU_IO_CLOUD, TOPOLOGY_NODE_LABEL}

\* C3, on the runs where no persisted and no configured key is one of the
\* reconciler's own: after a run that completes, every persisted key/value
\* pair is on the node with that value and no key dropped from the
\* configuration is on the node.
C3_PersistedIsOnNode ==
    (Done /\ (KeySet(initial_labels) \cup KeySet(user_labels)) \cap Owned = {}) =>
        /\ Pairs(current_labels) \subseteq node
        /\ \A k \in Dropped : ~NodeHas(node, k)

\* C4: in the ops revision, a configured entry whose value ends with "-" gets
\* a remove and no set, and its key is not in the persisted state after the
\* run, whatever was persisted for it before.
C4_DashedIsRemovedAndForgotten ==
    (Done /\ rev = "ops") =>
        \A p \in Pairs(user_labels) :
            Dashed(p[2]) =>
                /\ Issued("remove", p[1], "add")
                /\ ~Issued("set", p[1], "add")
                /\ ~HasKey(current_labels, p[1])


\* the set or remove command in flight has failed until its deadline
CommandExhausted ==
    /\ InFlight /\ call.stage = "cmd" /\ call.now >= call.deadline
    /\ call.kind \in {"set", "remove"}

\* C5: when a set or remove command has failed until its deadline, the run
\* ends in NodeLabelError with that operation's retry message, and from then
\* on no operation is issued.
C5_FailureAborts ==
    [][/\ CommandExhausted =>
              /\ pc' = "error"
              /\ error' = RetryMsg(call.kind, "cmd", call.key, call.val)
              /\ error'.what \in {"Failed to apply label", "Failed to remove label"}
              /\ oplog' = oplog
       /\ pc = "error" => (pc' = "error" /\ oplog' = oplog /\ error' = error)
      ]_vars

C5_Witness ==
    /\ pc = "error" /\ call.exhausted /\ call.stage = "cmd"
    /\ call.kind = "set" /\ call.key = KeyA
    /\ error = RetryMsg("set", "cmd", KeyA, <<"1">>)
    /\ Len(items_todo) = 2
    /\ Len(oplog) >= 2

\* the operations that have returned: all those issued but the one whose
\* command is still running or has failed
Succeeded ==
    IF call.stage = "cmd" THEN SubSeq(oplog, 1, Len(oplog) - 1) ELSE oplog

RECURSIVE Applied(_, _)
Applied(ops, d) ==
    IF Len(ops) = 0 THEN d
    ELSE IF Head(ops).phase \notin {"remove", "add"} THEN Applied(Tail(ops), d)
    ELSE IF Head(ops).op = "set"
    THEN Applied(Tail(ops), DictSet(d, Head(ops).key, Head(ops).val))
    ELSE Applied(Tail(ops), DictDel(d, Head(ops).key))

\* C6: in every state of a run, the persisted mapping is the mapping of the
\* start of the run with the user-label operations that have succeeded applied
\* to it: each successful set recorded, each successful remove deleted.
C6_PersistedTracksSuccesses ==
    Pairs(current_labels) = Pairs(Applied(Succeeded, initial_labels))

\* C7 as stated: exhaustion is reported between timeout and timeout plus one
\* backoff interval after the call started.
C7_ExhaustedWithinOneBackoff ==
    call.exhausted =>
        call.now >= timeout /\ call.now <= timeout + Backoff

\* C7 amended: exhaustion is reported no earlier than timeout after the call
\* started, and less than one backoff interval plus the time the last
\* invocation of the command took after the deadline.
C7_ExhaustedAfterLastPass ==
    call.exhausted =>
        call.now >= timeout /\ call.now < timeout + call.dur + Backoff

C7_Witness ==
    call.exhausted /\ call.dur = MaxCmdTime /\ call.now > timeout + Backoff

\* C8: the first thing a _retried_call does is run the command; a pass that
\* succeeds ends the call there and then; a pass that fails logs, sleeps one
\* backoff interval and goes round again, whatever the failure; the call
\* gives up only once the deadline has passed.
C8_RetryPasses ==
    [][(InFlight /\ call' # call) =>
          /\ call.last = <<>> => call.now < call.deadline
          /\ IF call.now < call.deadline
             THEN \/ call' = ReturnedCall
                  \/ /\ call.stage = "which"
                     /\ call' = NewCall(call.kind, call.key, call.val, "cmd")
                  \/ \E d \in 0..MaxCmdTime :
                        call' = [call EXCEPT !.now = call.now + d + Backoff,
                                             !.dur = d,
                                             !.last = <<"run", "log", "sleep">>]
             ELSE /\ call'.exhausted
                  /\ call'.now = call.now
                  /\ call.last = <<"run", "log", "sleep">>
      ]_vars

C8_Witness ==
    /\ call = ReturnedCall /\ pc = "add"
    /\ Len(oplog) = 1 /\ Len(items_todo) = 1

\* a call that has failed one pass and is about to run the command again
C8_WitnessRetry ==
    /\ InFlight /\ call.last = <<"run", "log", "sleep">>
    /\ call.now = Backoff /\ call.now < call.deadline

CloudOps == {i \in 1..Len(oplog) : oplog[i].key = JUJU_IO_CLOUD}
CloudStepOps == {i \in 1..Len(oplog) : oplog[i].phase = "cloud"}
Matching == {i \in 1..Len(juju_io_cloud_labels) : juju_io_cloud_labels[i][1] \in cloud}
Lowest(S) == CHOOSE i \in S : \A j \in S : i <= j

\* the operation the cloud step owes: set juju.io/cloud to the value of the
\* first active entry of the table, or remove it when none is active
CloudOwed(op) ==
    /\ op.key = JUJU_IO_CLOUD
    /\ IF Matching = {}
       THEN op.op = "remove"
       ELSE op.op = "set" /\ op.val = juju_io_cloud_labels[Lowest(Matching)][2]
    /\ ("aws" \in cloud) => op.val = <<"ec2">>
    /\ (cloud = {"gcp"}) => op.val = <<"gce">>

\* C9 as stated: a run that completes issues exactly one operation on
\* juju.io/cloud, its last, which is the one the cloud step owes.
C9_OneCloudOperation ==
    Done => /\ CloudOps = {Len(oplog)}
            /\ CloudOwed(oplog[Len(oplog)])

\* C9 amended: the cloud step of a run that completes issues exactly one
\* operation, the last of the run, which is the one it owes; the user-label
\* steps may have issued operations on juju.io/cloud before it.
C9_OneCloudStepOperation ==
    Done => /\ CloudStepOps = {Len(oplog)}
            /\ CloudOwed(oplog[Len(oplog)])

C9_Witness ==
    /\ Done /\ Cardinality(CloudOps) = 2
    /\ cloud = {"gcp", "aws"}

IdentitySet(i, key, val, phase) ==
    /\ i >= 1
    /\ oplog[i] = [op |-> "set", key |-> key, val |-> val, phase |-> phase]

\* C10: a run that completes sets juju-application to the application name
\* and, in the ops revision, juju-charm to the charm name, in that order, with
\* overwrite, after every user-label operation and directly before the
\* juju.io/cloud operation that ends the run.
C10_IdentityLabels ==
    Done =>
        LET n == Len(oplog)
            first == IF rev = "ops" THEN n - 2 ELSE n - 1
        IN  /\ oplog[n].phase = "cloud"
            /\ IdentitySet(first, JUJU_APPLICATION, AppName, "app")
            /\ rev = "ops" => IdentitySet(n - 1, JUJU_CHARM, CharmName, "charm")
            /\ \A i \in 1..n :
                   oplog[i].phase \in {"remove", "add"} => i < first
            /\ <<JUJU_APPLICATION, AppName>> \in node
            /\ rev = "ops" => <<JUJU_CHARM, CharmName>> \in node

C10_Witness ==
    /\ Done /\ rev = "ops"
    /\ Issued("set", JUJU_APPLICATION, "add")
    /\ Issued("remove", JUJU_IO_CLOUD, "remove")


(***************************************************************************)
(* Claims about the parser.                                                *)
(***************************************************************************)
CountOf(s, c) == Cardinality({i \in 1..Len(s) : s[i] = c})
WellFormed(tok) == CountOf(tok, "=") = 1
EqAt(tok) == CHOOSE i \in 1..Len(tok) : tok[i] = "="
KeyOf(tok) == SubSeq(tok, 1, EqAt(tok) - 1)
ValOf(tok) == SubSeq(tok, EqAt(tok) + 1, Len(tok))
\* the mapping a token list stands for: well-formed tokens, the last one of a
\* key winning
Desired(toks) ==
    { <<KeyOf(toks[i]), ValOf(toks[i])>> :
        i \in { j \in 1..Len(toks) :
                  /\ WellFormed(toks[j])
                  /\ \A l \in (j + 1)..Len(toks) :
                         WellFormed(toks[l]) => KeyOf(toks[l]) # KeyOf(toks[j]) } }
NonEmpty(tok) == Len(tok) > 0
BadToken(tok) == NonEmpty(tok) /\ ~WellFormed(tok)
Parsed == pc \notin {"start", "error"}
AddKeys == {oplog[i].key : i \in {j \in 1..Len(oplog) : oplog[j].phase = "add"}}

\* C11: once the configuration is parsed, the desired set is the
\* mapping of its whitespace-separated tokens with exactly one "=", the last
\* token of a key winning; every other token is logged as malformed, in
\* order, and the add step issues no operation for it.
C11_ParsedFromWhitespaceTokens ==
    Parsed =>
        /\ Pairs(user_labels) = Desired(WsTokens(config))
        /\ SelectSeq(warnings, NonEmpty) = SelectSeq(WsTokens(config), BadToken)
        /\ AddKeys \subseteq {p[1] : p \in Desired(WsTokens(config))}

FirstBad(toks) ==
    toks[CHOOSE i \in 1..Len(toks) :
            ~WellFormed(toks[i]) /\ \A j \in 1..(i - 1) : WellFormed(toks[j])]

\* C12: in strict mode, when some token of the configuration does not hold
\* exactly one "=", apply_node_labels ends with the malformed-label error
\* raised for the first such token, and it does so before anything is
\* mutated: no operation has been issued, the node is as it was and
\* current_labels is what it was at the start.
C12_StrictRaisesBeforeMutation ==
    ( /\ raise_invalid_label
      /\ \E i \in 1..Len(Split(config, " ")) : ~WellFormed(Split(config, " ")[i])
      /\ pc # "start" )
    => /\ pc = "error"
       /\ error = MalformedError(FirstBad(Split(config, " ")))
       /\ oplog = <<>>
       /\ current_labels = initial_labels
       /\ node = Pairs(initial_labels) \cup {<<Foreign, <<"9">> >>}

\* the error is raised although a well-formed token comes first and a
\* persisted key would have had to go
C12_Witness ==
    /\ pc = "error"
    /\ error.what = "Malformed label"
    /\ WellFormed(Split(config, " ")[1])
    /\ KeySet(initial_labels) \ {KeyOf(Split(config, " ")[1])} # {}

ZoneSetInFlight ==
    /\ PhaseOf(pc) = "zone" /\ InFlight
    /\ call.kind = "set" /\ call.key = TOPOLOGY_NODE_LABEL

\* C14: with the hint present, a live read that shows no zone label is
\* followed by a set of the zone label to the hint, and a live read that
\* shows a zone label with a value is followed by no set; without the hint
\* the zone step issues neither a read nor a set; current_labels has no say.
C14_ZoneFollowsLiveRead ==
    [][ /\ (pc = "zone" /\ juju_az = <<>>) =>
               pc' = "remove" /\ oplog' = oplog /\ call' = call
        /\ (pc = "zone_decide" /\ pc' # pc /\ live.status = "labels") =>
               pc' = IF NodeHas(live.labels, TOPOLOGY_NODE_LABEL)
                        /\ NodeGet(live.labels, TOPOLOGY_NODE_LABEL) # <<>>
                     THEN "remove" ELSE "zone_set"
        /\ (pc = "zone_set" /\ call.stage = "idle" /\ call' # call) =>
               /\ oplog' = Append(oplog, [op |-> "set", key |-> TOPOLOGY_NODE_LABEL,
                                          val |-> juju_az, phase |-> "zone"])
               /\ juju_az # <<>>
        /\ juju_az = <<>> =>
               \A i \in 1..Len(oplog') : oplog'[i].phase # "zone"
      ]_vars

\* the set is in flight after a read that showed no zone label, although
\* current_labels holds one
C14_Witness ==
    /\ ZoneSetInFlight /\ call.stage = "cmd"
    /\ live.status = "labels"
    /\ ~NodeHas(live.labels, TOPOLOGY_NODE_LABEL)
    /\ HasKey(current_labels, TOPOLOGY_NODE_LABEL)

\* C15: no set of the zone label is issued by the zone step while the node
\* carries a zone label, whatever its value and whatever the live read
\* returned.
C15_ZoneNeverClobbered ==
    ZoneSetInFlight => ~NodeHas(node, TOPOLOGY_NODE_LABEL)

\* C16: at the end of every run that completes the node carries
\* juju-application and (ops) juju-charm with the values of the context and,
\* when the zone hint is present, a zone label, whatever the configuration
\* and whatever current_labels held at the start.
C16_DerivedLabelsSurvive ==
    Done =>
        /\ <<JUJU_APPLICATION, AppName>> \in node
        /\ rev = "ops" => <<JUJU_CHARM, CharmName>> \in node
        /\ juju_az # <<>> => NodeHas(node, TOPOLOGY_NODE_LABEL)

\* C17: a run that follows a completed run with the same configuration and
\* context (the same cloud identity read) and completes, no live read of
\* either run having been unusable, leaves the node and current_labels
\* exactly as the run before it left them.
C17_SecondRunChangesNothing ==
    ( /\ run > 1 /\ Done /\ prev_end.done
      /\ cloud = prev_end.cloud
      /\ live.status # "none" /\ prev_end.read # "none" )
    => /\ node = prev_end.node
       /\ current_labels = prev_end.labels

PhaseRank(ph) ==
    IF ph = "remove" THEN 1
    ELSE IF ph = "add" THEN 2
    ELSE IF ph = "zone" THEN 3
    ELSE IF ph = "app" THEN 4
    ELSE IF ph = "charm" THEN 5
    ELSE 6

\* C18: the operations of a run come in the order removals, desired
\* entries, zone step, identity labels, cloud label; no operation of the
\* zone step precedes a removal or an add.
C18_StepOrder ==
    \A i, j \in 1..Len(oplog) :
        i < j => PhaseRank(oplog[i].phase) <= PhaseRank(oplog[j].phase)

C20_EmptyTokensAreHarmless ==
    pc # "start" =>
        /\ config = <<>> =>
               pc # "error" /\ warnings = <<>> /\ user_labels = <<>>
        /\ ( /\ raise_invalid_label
              /\ \A i \in 1..Len(Split(config, " ")) :
                     ~BadToken(Split(config, " ")[i]) )
           => error.what # "Malformed label"

(***************************************************************************)
(* Termination and frame claims.                                           *)
(***************************************************************************)
Terminated == pc \in {"done", "error"}
\* one operation per persisted key, one per desired entry, the read and the
\* set of the zone step, the two identity labels and the cloud label
MaxOperations == Len(initial_labels) + Len(user_labels) + 5

\* C21: every run ends, with success or with an error; each pass of an
\* operation that goes round again started before the deadline and moved the
\* clock on by at least one backoff, so an operation makes at most
\* timeout / backoff failing passes; and the run issues at most one
\* operation per persisted key and per desired entry plus the zone, identity
\* and cloud operations.
C21_RunTerminates ==
    /\ <>Terminated
    /\ [][ ( /\ InFlight /\ ~call'.exhausted
             /\ call'.stage = call.stage /\ call' # call )
           => /\ call.now < call.deadline
              /\ call'.now >= call.now + Backoff
              /\ call'.deadline = call.deadline
              /\ call.deadline = timeout ]_vars
    /\ [](Len(oplog) <= MaxOperations)

\* a completed run that issued as many operations as a run can
C21_Witness ==
    /\ Done
    /\ Len(oplog) = MaxOperations
    /\ Len(initial_labels) > 0 /\ Len(user_labels) > 0

\* current_labels as the first run found it
FirstLabels == IF run = 1 THEN initial_labels ELSE prev_end.first
ConfiguredKeys ==
    { KeyOf(Split(config, " ")[i]) :
        i \in {j \in 1..Len(Split(config, " ")) : WellFormed(Split(config, " ")[j])} }

\* C22: no step outside the removal loop and the add loop changes
\* current_labels (the zone, identity and cloud steps leave it alone), and
\* after any number of runs its keys are among the keys it held when the
\* first run started and the keys of the well-formed tokens of the
\* configuration.
C22_OnlyUserStepsWrite ==
    /\ [][PhaseOf(pc) \notin {"remove", "add"} =>
              current_labels' = current_labels]_vars
    /\ [](KeySet(current_labels) \subseteq KeySet(FirstLabels) \cup ConfiguredKeys)

\* a later run has completed, the cloud label is on the node and not in
\* current_labels, which holds a user label
C22_Witness ==
    /\ run > 1 /\ Done
    /\ NodeHas(node, JUJU_IO_CLOUD)
    /\ ~HasKey(current_labels, JUJU_IO_CLOUD)
    /\ Len(current_labels) > 0

\* the node as the run found it
StartNode == Pairs(initial_labels) \cup {<<Foreign, <<"9">> >>}
Responsible == KeySet(initial_labels) \cup KeySet(user_labels) \cup Owned

\* C23: at every point of a run, completed or aborted, every label whose key
\* is not persisted at the start of the run, not a key of the parsed user
\* labels and not juju-application, juju-charm, juju.io/cloud or the zone
\* label is on the node exactly when, and with the value, it was there at
\* the start.
C23_ForeignLabelsUntouched ==
    \A p \in node \cup StartNode :
        p[1] \notin Responsible => (p \in node <=> p \in StartNode)

====
